---- MODULE Spec2Model ----
(***************************************************************************)
(* Client-side authentication session lifecycle of the textbook front end: *)
(* AuthService (services/authService.ts) over localStorage and the Zustand *)
(* auth store (store/authStore.ts).                                        *)
(*                                                                         *)
(* Granularity: JavaScript runs each continuation to completion, so one    *)
(* action is the code executed between two network awaits: from the call   *)
(* (or from the arrival of a fetch response, body included) up to the next *)
(* fetch or to the end of the operation.  The backend is external: every   *)
(* response is an input drawn from the set of answers the endpoint can     *)
(* give (OK with a body, 401, another non-OK status, a thrown fetch).      *)
(***************************************************************************)
EXTENDS Integers, FiniteSets, Sequences, TLC

\* localStorage and the auth store, with the calls of its actions in flight
VARIABLES auth_token, refresh_token, user, isLoading, isAuthenticated, error, procs
\* the preferences store (store/userPreferencesStore.ts)
VARIABLES preferences, prefsLoading, prefsError
\* the token utilities and the session manager of the session-management test
VARIABLES mockLocalStorage, currentTime, expected, answer
\* a mounted ProtectedRoute: what useAuth gives it, its props, what it rendered
VARIABLES hook, props, rendered
\* its shouldRedirect state, what its last render saw, whether the effects of
\* that render are still to run ("none" | "mount" | "update"), and where
\* window.location points ("page" | "signin" | "onboarding")
VARIABLES shouldRedirect, seen, effects, location

authVars == <<auth_token, refresh_token, user, isLoading, isAuthenticated, error, procs>>
prefsVars == <<preferences, prefsLoading, prefsError>>
tokenVars == <<mockLocalStorage, currentTime, expected, answer>>
routeVars == <<hook, props, rendered, shouldRedirect, seen, effects, location>>

vars == <<authVars, prefsVars, tokenVars, routeVars>>

(* ------------------------------ bounds ---------------------------------- *)
\* credential pairs the backend can issue: pair k is (token k, refreshToken k)
MaxPairs == 2
\* distinct profile / preferences payloads the backend can return
MaxData == 2
\* cap on the refresh requests one getCurrentUser call chain may send
MaxRefreshes == 2
\* the clock of the token checks runs over 0 .. MaxTime seconds
MaxTime == 2
\* a profile lists up to MaxGoals learning goals
MaxGoals == 1

(* ------------------------------ values ---------------------------------- *)
\* localStorage.getItem of an absent key; also a field missing from a JSON body
Null == 0
\* the string "undefined", which localStorage.setItem(key, undefined) stores
UndefinedStr == -1

Procs == {"c1", "c2"}
Before(q, p) == q = "c1" /\ p = "c2"

PairIds == 1 .. MaxPairs
DataVals == 1 .. MaxData

NoUser == [id |-> "null", profile |-> Null, preferences |-> Null]
Users == [id : {"u1"}, profile : DataVals, preferences : DataVals]

NoError == "null"
\* an error text (`data.message || '...'`, `error.message`): the store only
\* keeps and shows it, so the texts are not told apart
Message(text) == "message"

\* localStorage.setItem(key, value) stores String(value)
ToStored(v) == IF v = Null THEN UndefinedStr ELSE v

(* --------------------------- backend answers ---------------------------- *)
NoPair == [token |-> Null, refreshToken |-> Null]

\* body of an accepted sign-in or refresh: the pair k the backend issued,
\* complete, or malformed and lacking one of its two fields
IssuedBodies ==
    { [token |-> k, refreshToken |-> k] : k \in PairIds }
    \cup { [token |-> k, refreshToken |-> Null] : k \in PairIds }
    \cup { [token |-> Null, refreshToken |-> k] : k \in PairIds }

Resp(kind, usr, pair, val) == [kind |-> kind, user |-> usr, pair |-> pair, val |-> val]

NoResp == Resp("none", NoUser, NoPair, Null)
NetworkError == Resp("neterr", NoUser, NoPair, Null)
NotOk == Resp("fail", NoUser, NoPair, Null)
Unauthorized == Resp("401", NoUser, NoPair, Null)

\* POST /auth/signin
SignInResponses ==
    { Resp("ok", u, b, Null) : u \in Users, b \in IssuedBodies } \cup {NotOk, NetworkError}
\* POST /auth/signup: an AuthResponse like that of signin; the pair it issues
\* is complete (its token fields are read by no one)
SignUpResponses ==
    { Resp("ok", u, [token |-> k, refreshToken |-> k], Null) : u \in Users, k \in PairIds }
    \cup {NotOk, NetworkError}
\* POST /auth/signout
SignOutResponses == { Resp("ok", NoUser, NoPair, Null), NotOk, NetworkError }
\* GET /auth/me
MeResponses == { Resp("ok", u, NoPair, Null) : u \in Users } \cup {Unauthorized, NotOk, NetworkError}
\* POST /auth/refresh
RefreshResponses == { Resp("ok", NoUser, b, Null) : b \in IssuedBodies } \cup {NotOk, NetworkError}
\* PUT /auth/profile and /auth/preferences
UpdateResponses == { Resp("ok", NoUser, NoPair, v) : v \in DataVals } \cup {Unauthorized, NotOk, NetworkError}

(* ------------------------------ processes ------------------------------- *)
\* one call of a store action, in flight or just finished
\*   op        the store action
\*   pc        "idle" | "fetch" (awaiting the operation's own request)
\*             | "refresh" (awaiting POST /auth/refresh)
\*             | "done" (this call returned in the step just taken)
\*   user      the user captured by `const { user } = get()` before the await
\*   refreshes refresh requests sent by this call so far
\*   pair      body of the refresh this call had accepted last, kept while no
\*             other call takes a step (NoPair otherwise)
\*   req, resp of a finished call: the request answered last ("main" |
\*             "refresh" | "none") and its answer
\*   sent      of a call of the preferences store: the newPreferences it sent
Proc(op, pc, usr, n, pair, req, resp, sent) ==
    [op |-> op, pc |-> pc, user |-> usr, refreshes |-> n, pair |-> pair,
     req |-> req, resp |-> resp, sent |-> sent]

Idle == Proc("idle", "idle", NoUser, 0, NoPair, "none", NoResp, Null)

Pending(r) == r.pc \in {"fetch", "refresh"}

\* a call takes the first slot that holds no pending call (the slots only name
\* the calls in flight, so which free slot is taken makes no difference)
Free(p) == ~Pending(procs[p]) /\ \A q \in Procs : Before(q, p) => Pending(procs[q])

\* call p moves to rec; the other pending calls stay where they are, and the
\* record of a call that had returned before this step is dropped
Step(p, rec) ==
    [q \in Procs |->
        IF q = p THEN rec
        ELSE IF Pending(procs[q]) THEN [procs[q] EXCEPT !.pair = NoPair]
        ELSE Idle]

Begin(op, usr) == Proc(op, "fetch", usr, 0, NoPair, "none", NoResp, Null)
Finish(rec, req, resp) == [rec EXCEPT !.pc = "done", !.user = NoUser, !.req = req, !.resp = resp]

\* call p of store action op returned in the step just taken
Returned(p, op) == procs[p].op = op /\ procs[p].pc = "done"

AuthInit ==
    /\ auth_token = Null
    /\ refresh_token = Null
    /\ user = NoUser
    /\ isLoading = FALSE
    /\ isAuthenticated = FALSE
    /\ error = NoError
    /\ procs = [p \in Procs |-> Idle]


(* --------------------------- AuthService -------------------------------- *)
\* ApiResponse of a service method together with localStorage as it leaves it
Api(success, usr, val, err, a, r) ==
    [success |-> success, user |-> usr, val |-> val, error |-> err,
     auth_token |-> a, refresh_token |-> r]

\* AuthService.signIn, from the answer to POST /auth/signin
ServiceSignIn(resp, a, r) ==
    CASE resp.kind = "ok" ->
            Api(TRUE, resp.user, Null, NoError,
                IF resp.pair.token # Null THEN resp.pair.token ELSE a,
                IF resp.pair.refreshToken # Null THEN resp.pair.refreshToken ELSE r)
      [] resp.kind = "neterr" -> Api(FALSE, NoUser, Null, Message("Network error"), a, r)
      [] OTHER -> Api(FALSE, NoUser, Null, Message("Sign in failed"), a, r)

\* AuthService.signUp, from the answer to POST /auth/signup: no token is stored
ServiceSignUp(resp, a, r) ==
    CASE resp.kind = "ok" -> Api(TRUE, resp.user, Null, NoError, a, r)
      [] resp.kind = "neterr" -> Api(FALSE, NoUser, Null, Message("Network error"), a, r)
      [] OTHER -> Api(FALSE, NoUser, Null, Message("Sign up failed"), a, r)
\* mutant of ServiceSignOut: the catch block forgets to remove the two keys
ServiceSignOut_KeepsTokensOnError(resp, a, r) ==
    IF resp.kind = "neterr"
    THEN Api(FALSE, NoUser, Null, Message("Network error"), a, r)
    ELSE Api(TRUE, NoUser, Null, NoError, Null, Null)

\* AuthService.signOut after its fetch: the status is not looked at, and both
\* the normal path and the catch block remove the two keys
ServiceSignOut(resp, a, r) ==
    IF resp.kind = "neterr"
    THEN Api(FALSE, NoUser, Null, Message("Network error"), Null, Null)
    ELSE Api(TRUE, NoUser, Null, NoError, Null, Null)
\* mutant of ServiceRefreshToken: an accepted refresh does not store the new pair
ServiceRefreshToken_DropsNewPair(resp, a, r) ==
    CASE resp.kind = "ok" -> Api(TRUE, NoUser, Null, NoError, a, r)
      [] resp.kind = "neterr" -> Api(FALSE, NoUser, Null, Message("Network error"), a, r)
      [] OTHER -> Api(FALSE, NoUser, Null, Message("Token refresh failed"), Null, Null)

\* AuthService.refreshToken, from the answer to POST /auth/refresh
ServiceRefreshToken(resp, a, r) ==
    CASE resp.kind = "ok" ->
            Api(TRUE, NoUser, Null, NoError,
                ToStored(resp.pair.token), ToStored(resp.pair.refreshToken))
      [] resp.kind = "neterr" -> Api(FALSE, NoUser, Null, Message("Network error"), a, r)
      [] OTHER -> Api(FALSE, NoUser, Null, Message("Token refresh failed"), Null, Null)

\* AuthService.getCurrentUser, from an answer to GET /auth/me that ends the call
\* (every answer but a 401 that is followed by a refresh request)
ServiceGetCurrentUser(resp, a, r) ==
    CASE resp.kind = "ok" -> Api(TRUE, resp.user, Null, NoError, a, r)
      [] resp.kind = "neterr" -> Api(FALSE, NoUser, Null, Message("Network error"), a, r)
      [] OTHER -> Api(FALSE, NoUser, Null, Message("Failed to get user"), a, r)

\* AuthService.getCurrentUser on a 401: whether refreshToken() sends a request
\* (it returns a failure at once when no refresh_token is stored)
RefreshesOn401(resp, r) == resp.kind = "401" /\ r # Null

\* AuthService.updateProfile / updatePreferences, from the answer to the PUT:
\* a 401 is a failure like any other non-OK status
ServiceUpdate(resp, a, r, failed) ==
    CASE resp.kind = "ok" -> Api(TRUE, NoUser, resp.val, NoError, a, r)
      [] resp.kind = "neterr" -> Api(FALSE, NoUser, Null, Message("Network error"), a, r)
      [] OTHER -> Api(FALSE, NoUser, Null, failed, a, r)

\* AuthService.isAuthenticated: !!localStorage.getItem('auth_token')
ServiceIsAuthenticated(a) == a # Null

(* ----------------------------- auth store ------------------------------- *)
StoreState(u, auth, loading, err) ==
    [user |-> u, isAuthenticated |-> auth, isLoading |-> loading, error |-> err]

Store == StoreState(user, isAuthenticated, isLoading, error)

SetStore(s) ==
    /\ user' = s.user
    /\ isAuthenticated' = s.isAuthenticated
    /\ isLoading' = s.isLoading
    /\ error' = s.error
\* mutant of StoreAfterAuth: the failure branch leaves isAuthenticated as it was
StoreAfterAuth_KeepsFlag(api, s) ==
    IF api.success
    THEN StoreState(api.user, TRUE, FALSE, NoError)
    ELSE StoreState(s.user, s.isAuthenticated, FALSE, api.error)

\* useAuthStore.signIn / signUp after `await authService.signIn(...)`
StoreAfterAuth(api, s) ==
    IF api.success
    THEN StoreState(api.user, TRUE, FALSE, NoError)
    ELSE StoreState(s.user, FALSE, FALSE, api.error)

\* useAuthStore.signOut after `await authService.signOut()`
StoreAfterSignOut(api, s) == StoreState(NoUser, FALSE, FALSE, NoError)

\* useAuthStore.initializeAuth after `await authService.getCurrentUser()`
StoreAfterInitialize(api, s) ==
    IF api.success
    THEN StoreState(api.user, TRUE, FALSE, NoError)
    ELSE StoreState(NoUser, FALSE, FALSE, NoError)

\* useAuthStore.updateProfile after the await; `captured` is the user read
\* by get() before the request was sent
StoreAfterUpdateProfile(api, s, captured) ==
    IF api.success
    THEN StoreState([captured EXCEPT !.profile = api.val], s.isAuthenticated, FALSE, NoError)
    ELSE StoreState(s.user, s.isAuthenticated, FALSE, api.error)

\* useAuthStore.updatePreferences after the await
StoreAfterUpdatePreferences(api, s, captured) ==
    IF api.success
    THEN StoreState([captured EXCEPT !.preferences = api.val], s.isAuthenticated, FALSE, NoError)
    ELSE StoreState(s.user, s.isAuthenticated, FALSE, api.error)

\* what persist writes under 'auth-storage' at every set(): partialize(state)
Partialize(s) == [user |-> s.user, isAuthenticated |-> s.isAuthenticated]

\* the store as created on a page load: the initial state with the persisted
\* fields merged over it
Rehydrate(persisted) == StoreState(persisted.user, persisted.isAuthenticated, FALSE, NoError)

SetStorage(api) ==
    /\ auth_token' = api.auth_token
    /\ refresh_token' = api.refresh_token


(* ------------------------------ actions --------------------------------- *)
Storage == <<auth_token, refresh_token>>

\* signIn / signUp up to the fetch: set({ isLoading: true, error: null })
SignInCall(p) ==
    /\ UNCHANGED <<prefsVars, tokenVars, routeVars>>
    /\ Free(p)
    /\ SetStore(StoreState(user, isAuthenticated, TRUE, NoError))
    /\ procs' = Step(p, Begin("signIn", NoUser))
    /\ UNCHANGED Storage

\* signIn from the answer of POST /auth/signin to its return
SignInResponse(p) ==
    /\ UNCHANGED <<prefsVars, tokenVars, routeVars>>
    /\ procs[p].op = "signIn" /\ procs[p].pc = "fetch"
    /\ \E resp \in SignInResponses :
        LET api == ServiceSignIn(resp, auth_token, refresh_token) IN
        /\ SetStorage(api)
        /\ SetStore(StoreAfterAuth(api, Store))
        /\ procs' = Step(p, Finish(procs[p], "main", resp))

SignUpCall(p) ==
    /\ UNCHANGED <<prefsVars, tokenVars, routeVars>>
    /\ Free(p)
    /\ SetStore(StoreState(user, isAuthenticated, TRUE, NoError))
    /\ procs' = Step(p, Begin("signUp", NoUser))
    /\ UNCHANGED Storage

SignUpResponse(p) ==
    /\ UNCHANGED <<prefsVars, tokenVars, routeVars>>
    /\ procs[p].op = "signUp" /\ procs[p].pc = "fetch"
    /\ \E resp \in SignUpResponses :
        LET api == ServiceSignUp(resp, auth_token, refresh_token) IN
        /\ SetStorage(api)
        /\ SetStore(StoreAfterAuth(api, Store))
        /\ procs' = Step(p, Finish(procs[p], "main", resp))

\* signOut up to the fetch; with no auth_token stored there is no fetch and the
\* whole operation runs in this step
SignOutCall(p) ==
    /\ UNCHANGED <<prefsVars, tokenVars, routeVars>>
    /\ Free(p)
    /\ IF auth_token # Null
       THEN /\ SetStore(StoreState(user, isAuthenticated, TRUE, error))
            /\ procs' = Step(p, Begin("signOut", NoUser))
            /\ UNCHANGED Storage
       ELSE LET api == ServiceSignOut(NoResp, auth_token, refresh_token) IN
            /\ SetStorage(api)
            /\ SetStore(StoreAfterSignOut(api, Store))
            /\ procs' = Step(p, Finish(Begin("signOut", NoUser), "none", NoResp))

SignOutResponse(p) ==
    /\ UNCHANGED <<prefsVars, tokenVars, routeVars>>
    /\ procs[p].op = "signOut" /\ procs[p].pc = "fetch"
    /\ \E resp \in SignOutResponses :
        LET api == ServiceSignOut(resp, auth_token, refresh_token) IN
        /\ SetStorage(api)
        /\ SetStore(StoreAfterSignOut(api, Store))
        /\ procs' = Step(p, Finish(procs[p], "main", resp))

NoTokenFound == Api(FALSE, NoUser, Null, Message("No authentication token found"), auth_token, refresh_token)

\* updateProfile up to the fetch: returns false at once without a user, and
\* fails without a request when no auth_token is stored
UpdateProfileCall(p) ==
    /\ UNCHANGED <<prefsVars, tokenVars, routeVars>>
    /\ Free(p)
    /\ IF user = NoUser
       THEN /\ procs' = Step(p, Finish(Begin("updateProfile", NoUser), "none", NoResp))
            /\ UNCHANGED <<user, isAuthenticated, isLoading, error>>
       ELSE IF auth_token = Null
       THEN /\ procs' = Step(p, Finish(Begin("updateProfile", user), "none", NoResp))
            /\ SetStore(StoreAfterUpdateProfile(NoTokenFound, Store, user))
       ELSE /\ procs' = Step(p, Begin("updateProfile", user))
            /\ SetStore(StoreState(user, isAuthenticated, TRUE, NoError))
    /\ UNCHANGED Storage

UpdateProfileResponse(p) ==
    /\ UNCHANGED <<prefsVars, tokenVars, routeVars>>
    /\ procs[p].op = "updateProfile" /\ procs[p].pc = "fetch"
    /\ \E resp \in UpdateResponses :
        LET api == ServiceUpdate(resp, auth_token, refresh_token, Message("Failed to update profile")) IN
        /\ SetStorage(api)
        /\ SetStore(StoreAfterUpdateProfile(api, Store, procs[p].user))
        /\ procs' = Step(p, Finish(procs[p], "main", resp))

UpdatePreferencesCall(p) ==
    /\ UNCHANGED <<prefsVars, tokenVars, routeVars>>
    /\ Free(p)
    /\ IF user = NoUser
       THEN /\ procs' = Step(p, Finish(Begin("updatePreferences", NoUser), "none", NoResp))
            /\ UNCHANGED <<user, isAuthenticated, isLoading, error>>
       ELSE IF auth_token = Null
       THEN /\ procs' = Step(p, Finish(Begin("updatePreferences", user), "none", NoResp))
            /\ SetStore(StoreAfterUpdatePreferences(NoTokenFound, Store, user))
       ELSE /\ procs' = Step(p, Begin("updatePreferences", user))
            /\ SetStore(StoreState(user, isAuthenticated, TRUE, NoError))
    /\ UNCHANGED Storage

UpdatePreferencesResponse(p) ==
    /\ UNCHANGED <<prefsVars, tokenVars, routeVars>>
    /\ procs[p].op = "updatePreferences" /\ procs[p].pc = "fetch"
    /\ \E resp \in UpdateResponses :
        LET api == ServiceUpdate(resp, auth_token, refresh_token, Message("Failed to update preferences")) IN
        /\ SetStorage(api)
        /\ SetStore(StoreAfterUpdatePreferences(api, Store, procs[p].user))
        /\ procs' = Step(p, Finish(procs[p], "main", resp))

\* initializeAuth up to the fetch of GET /auth/me: returns at once, changing
\* nothing, when authService.isAuthenticated() is false
InitializeAuthCall(p) ==
    /\ UNCHANGED <<prefsVars, tokenVars, routeVars>>
    /\ Free(p)
    /\ IF ~ServiceIsAuthenticated(auth_token)
       THEN /\ procs' = Step(p, Finish(Begin("initializeAuth", NoUser), "none", NoResp))
            /\ UNCHANGED <<user, isAuthenticated, isLoading, error>>
       ELSE /\ procs' = Step(p, Begin("initializeAuth", NoUser))
            /\ SetStore(StoreState(user, isAuthenticated, TRUE, error))
    /\ UNCHANGED Storage

\* getCurrentUser from the answer of GET /auth/me: on a 401 with a stored
\* refresh_token it sends POST /auth/refresh, otherwise it returns and
\* initializeAuth finishes
MeResponse(p) ==
    /\ UNCHANGED <<prefsVars, tokenVars, routeVars>>
    /\ procs[p].op = "initializeAuth" /\ procs[p].pc = "fetch"
    /\ \E resp \in MeResponses :
        IF RefreshesOn401(resp, refresh_token)
        THEN /\ procs[p].refreshes < MaxRefreshes
             /\ procs' = Step(p, [procs[p] EXCEPT !.pc = "refresh", !.refreshes = @ + 1])
             /\ UNCHANGED <<auth_token, refresh_token, user, isAuthenticated, isLoading, error>>
        ELSE LET api == ServiceGetCurrentUser(resp, auth_token, refresh_token) IN
             /\ SetStorage(api)
             /\ SetStore(StoreAfterInitialize(api, Store))
             /\ procs' = Step(p, Finish(procs[p], "main", resp))

\* refreshToken from the answer of POST /auth/refresh: on success
\* getCurrentUser calls itself and sends GET /auth/me again, otherwise
\* getCurrentUser returns its failure and initializeAuth finishes
RefreshResponse(p) ==
    /\ UNCHANGED <<prefsVars, tokenVars, routeVars>>
    /\ procs[p].op = "initializeAuth" /\ procs[p].pc = "refresh"
    /\ \E resp \in RefreshResponses :
        LET api == ServiceRefreshToken(resp, auth_token, refresh_token) IN
        /\ SetStorage(api)
        /\ IF api.success
           THEN /\ procs' = Step(p, [procs[p] EXCEPT !.pc = "fetch", !.pair = resp.pair])
                /\ UNCHANGED <<user, isAuthenticated, isLoading, error>>
           ELSE /\ SetStore(StoreAfterInitialize(
                        ServiceGetCurrentUser(Unauthorized, api.auth_token, api.refresh_token), Store))
                /\ procs' = Step(p, Finish(procs[p], "refresh", resp))

\* clearError
ClearError ==
    /\ UNCHANGED <<prefsVars, tokenVars, routeVars>>
    /\ error # NoError
    /\ error' = NoError
    /\ procs' = [p \in Procs |-> IF Pending(procs[p]) THEN procs[p] ELSE Idle]
    /\ UNCHANGED <<auth_token, refresh_token, user, isLoading, isAuthenticated>>

\* a page reload: pending calls are gone, the store is created again with its
\* initial state and rehydrated from 'auth-storage', which holds what
\* partialize keeps (user, isAuthenticated); localStorage survives
Reload ==
    /\ UNCHANGED <<prefsVars, tokenVars, routeVars>>
    /\ \E p \in Procs : procs[p] # Idle
    /\ procs' = [p \in Procs |-> Idle]
    /\ SetStore(Rehydrate(Partialize(Store)))
    /\ UNCHANGED <<auth_token, refresh_token>>

(* -------------------------- preferences store -------------------------- *)
\* UserPreferences; the model keeps one of its two enumerated fields and one
\* of its four flags, the others are handled by the same code
UserPreferencesValues == [language : {"english", "urdu"}, chatbotEnabled : BOOLEAN]

defaultPreferences == [language |-> "english", chatbotEnabled |-> TRUE]

\* Partial<UserPreferences>: any subset of the fields
PartialPreferences ==
    UserPreferencesValues
    \cup [language : {"english", "urdu"}]
    \cup [chatbotEnabled : BOOLEAN]
    \cup {<<>>}

\* { ...currentPreferences, ...updates }
Spread(current, updates) ==
    [f \in DOMAIN current |-> IF f \in DOMAIN updates THEN updates[f] ELSE current[f]]

\* PUT /auth/preferences as the preferences store sends it
PrefsResponses ==
    { Resp("ok", NoUser, NoPair, v) : v \in UserPreferencesValues }
    \cup {Unauthorized, NotOk, NetworkError}

PrefsState(prefs, loading, err) == [preferences |-> prefs, isLoading |-> loading, error |-> err]

SetPrefs(s) ==
    /\ preferences' = s.preferences
    /\ prefsLoading' = s.isLoading
    /\ prefsError' = s.error

\* mutant of PrefsAfterUpdate: a failed update falls back to the defaults
PrefsAfterUpdate_ResetsOnFailure(api, prefs) ==
    IF api.success
    THEN PrefsState(api.val, FALSE, NoError)
    ELSE PrefsState(defaultPreferences, FALSE, api.error)

\* useUserPreferencesStore.updatePreferences after the await
PrefsAfterUpdate(api, prefs) ==
    IF api.success
    THEN PrefsState(api.val, FALSE, NoError)
    ELSE PrefsState(prefs, FALSE, api.error)

PrefsInit ==
    /\ preferences = defaultPreferences
    /\ prefsLoading = FALSE
    /\ prefsError = NoError

\* the actions of the preferences store that end in updatePreferences
PrefsOps ==
    {"preferences.updatePreferences", "preferences.setLanguage", "preferences.toggleChatbot"}

\* useUserPreferencesStore.updatePreferences(updates), called through the
\* action `via`, up to the fetch; with no auth_token stored the service fails
\* without a request
PrefsUpdateCall(p, via, updates) ==
    /\ UNCHANGED <<tokenVars, routeVars>>
    /\ Free(p)
    /\ LET newPreferences == Spread(preferences, updates) IN
       IF auth_token = Null
       THEN /\ SetPrefs(PrefsAfterUpdate(NoTokenFound, preferences))
            /\ procs' = Step(p, Finish(Begin(via, NoUser), "none", NoResp))
       ELSE /\ SetPrefs(PrefsState(preferences, TRUE, NoError))
            /\ procs' = Step(p, [Begin(via, NoUser) EXCEPT !.sent = newPreferences])
    /\ UNCHANGED <<auth_token, refresh_token, user, isLoading, isAuthenticated, error>>

\* useUserPreferencesStore.updatePreferences from the answer to the PUT
PrefsUpdateResponse(p) ==
    /\ UNCHANGED <<tokenVars, routeVars>>
    /\ procs[p].op \in PrefsOps /\ procs[p].pc = "fetch"
    /\ \E resp \in PrefsResponses :
        LET api == ServiceUpdate(resp, auth_token, refresh_token, Message("Failed to update preferences")) IN
        /\ SetPrefs(PrefsAfterUpdate(api, preferences))
        /\ procs' = Step(p, Finish(procs[p], "main", resp))
    /\ UNCHANGED <<auth_token, refresh_token, user, isLoading, isAuthenticated, error>>

\* setLanguage(language)
SetLanguage(p) ==
    \E l \in {"english", "urdu"} : PrefsUpdateCall(p, "preferences.setLanguage", [language |-> l])

\* toggleChatbot(): the negation of the flag as the store holds it now
ToggleChatbot(p) ==
    PrefsUpdateCall(p, "preferences.toggleChatbot", [chatbotEnabled |-> ~preferences.chatbotEnabled])

\* updatePreferences(updates) called with any other partial record
UpdateAnyPreferences(p) ==
    \E u \in PartialPreferences : PrefsUpdateCall(p, "preferences.updatePreferences", u)

\* resetPreferences()
ResetPreferences ==
    /\ UNCHANGED <<tokenVars, routeVars>>
    /\ UNCHANGED <<auth_token, refresh_token, user, isLoading, isAuthenticated, error>>
    /\ procs' = [p \in Procs |-> IF Pending(procs[p]) THEN procs[p] ELSE Idle]
    /\ preferences # defaultPreferences
    /\ preferences' = defaultPreferences
    /\ UNCHANGED <<prefsLoading, prefsError>>

\* clearError() of the preferences store
PrefsClearError ==
    /\ UNCHANGED <<tokenVars, routeVars>>
    /\ UNCHANGED <<auth_token, refresh_token, user, isLoading, isAuthenticated, error>>
    /\ procs' = [p \in Procs |-> IF Pending(procs[p]) THEN procs[p] ELSE Idle]
    /\ prefsError # NoError
    /\ prefsError' = NoError
    /\ UNCHANGED <<preferences, prefsLoading>>

(* ------------------- token utilities, session manager ------------------- *)
\* a string held as a credential, by what the code can tell about it:
\*   "undefined"  no string (a key the Map lacks)     "null"  JavaScript null
\*   "empty"      ''            "blank"  only white space
\*   "garbage"    a non-blank string its decoder cannot decode
\*   "noexp"      decodes to a payload without exp
\*   "jwt"        decodes to a payload with exp = .exp (seconds)
Text(kind, exp) == [kind |-> kind, exp |-> exp]

UndefinedText == Text("undefined", Null)
NullText == Text("null", Null)

Times == 0 .. MaxTime

\* the tokens the tests build: `${userId}:${email}:${exp}` and random
\* strings of letters and digits
AuthTokens == { Text("jwt", e) : e \in Times } \cup { Text("noexp", Null), Text("garbage", Null) }
RefreshTokens == { Text("garbage", Null), Text("noexp", Null) }

\* every string isTokenExpired can be handed
TokenStrings == AuthTokens \cup { Text("empty", Null), Text("blank", Null) }

\* !!value of a string or null
Truthy(t) == t.kind \notin {"undefined", "null", "empty"}

\* JSON.parse(atob(token.split('.')[1])) / MockJWTUtils.getTokenPayload:
\* whether a payload comes out
Decodes(t) == t.kind \in {"jwt", "noexp"}

\* JWTUtils.isTokenExpired: `undefined < currentTime` is false
isTokenExpired(token, now) ==
    IF ~Decodes(token) THEN TRUE
    ELSE IF token.kind = "noexp" THEN FALSE
    ELSE token.exp < now

\* MockSessionManager.isTokenExpired: `!payload || !payload.exp` is expired
MockIsTokenExpired(token, now) ==
    IF ~Decodes(token) THEN TRUE
    ELSE IF token.kind = "noexp" \/ token.exp = 0 THEN TRUE
    ELSE token.exp < now

\* mutant of MockGetItem: without the `|| null`
MockGetItem_NoNullDefault(store, key) == store[key]

\* mockLocalStorage.getItem: this.store.get(key) || null
MockGetItem(store, key) == IF Truthy(store[key]) THEN store[key] ELSE NullText

\* MockSessionManager.getAuthToken / getRefreshToken
getAuthToken == MockGetItem(mockLocalStorage, "auth_token")
getRefreshToken == MockGetItem(mockLocalStorage, "refresh_token")

\* MockSessionManager.isAuthenticated
MockIsAuthenticated(now) ==
    LET token == getAuthToken IN
    Truthy(token) /\ token.kind # "blank" /\ ~MockIsTokenExpired(token, now)

\* AuthService.isAuthenticated over the same stored string: !!getStoredToken()
AuthServiceIsAuthenticated == Truthy(getAuthToken)

EmptyMap == [k \in {"auth_token", "refresh_token"} |-> UndefinedText]

NoAnswer == [fn |-> "none", arg |-> NullText, value |-> FALSE]
Answer(fn, arg, value) == [fn |-> fn, arg |-> arg, value |-> value]

TokensInit ==
    /\ mockLocalStorage = EmptyMap
    /\ currentTime = 0
    /\ expected = <<NullText, NullText>>
    /\ answer = NoAnswer

\* sessionManager.storeTokens(authToken, refreshToken), with the test's record
\* of what it expects to read back
StoreTokens ==
    /\ UNCHANGED <<authVars, prefsVars, routeVars>>
    /\ \E authToken \in AuthTokens, refreshToken \in RefreshTokens :
        /\ mockLocalStorage' = [auth_token |-> authToken, refresh_token |-> refreshToken]
        /\ expected' = <<authToken, refreshToken>>
    /\ answer' = NoAnswer
    /\ UNCHANGED currentTime

\* sessionManager.clearTokens()
ClearTokens ==
    /\ UNCHANGED <<authVars, prefsVars, routeVars>>
    /\ mockLocalStorage # EmptyMap
    /\ mockLocalStorage' = EmptyMap
    /\ expected' = <<NullText, NullText>>
    /\ answer' = NoAnswer
    /\ UNCHANGED currentTime

\* Date.now() moves on by a second
Tick ==
    /\ UNCHANGED <<authVars, prefsVars, routeVars>>
    /\ currentTime < MaxTime
    /\ currentTime' = currentTime + 1
    /\ answer' = NoAnswer
    /\ UNCHANGED <<mockLocalStorage, expected>>

\* JWTUtils.isTokenExpired(token)
CallIsTokenExpired ==
    /\ UNCHANGED <<authVars, prefsVars, routeVars>>
    /\ \E token \in TokenStrings :
        answer' = Answer("isTokenExpired", token, isTokenExpired(token, currentTime))
    /\ UNCHANGED <<mockLocalStorage, currentTime, expected>>

\* sessionManager.isAuthenticated()
CallMockIsAuthenticated ==
    /\ UNCHANGED <<authVars, prefsVars, routeVars>>
    /\ answer' = Answer("sessionManager.isAuthenticated", getAuthToken, MockIsAuthenticated(currentTime))
    /\ UNCHANGED <<mockLocalStorage, currentTime, expected>>

\* authService.isAuthenticated() with the same string under auth_token
CallIsAuthenticated ==
    /\ UNCHANGED <<authVars, prefsVars, routeVars>>
    /\ answer' = Answer("authService.isAuthenticated", getAuthToken, AuthServiceIsAuthenticated)
    /\ UNCHANGED <<mockLocalStorage, currentTime, expected>>

NextTokens ==
    \/ StoreTokens
    \/ ClearTokens
    \/ Tick
    \/ CallIsTokenExpired
    \/ CallMockIsAuthenticated
    \/ CallIsAuthenticated

(* ------------------------ useAuth, ProtectedRoute ----------------------- *)
ProfileFields == {"backgroundLevel", "learningGoals", "technicalBackground"}

\* learningGoals: string[] of up to MaxGoals goals
GoalLists == UNION { [1 .. n -> {"goal1"}] : n \in 0 .. MaxGoals }

\* a profile with all three fields the predicate reads
FullProfiles ==
    [backgroundLevel : {"", "beginner"}, learningGoals : GoalLists, technicalBackground : {"", "x"}]

\* user.profile as the backend sent it: any of the fields may be missing
Profiles == { [f \in S |-> prof[f]] : prof \in FullProfiles, S \in SUBSET ProfileFields }

\* the user the hook reads from the store: null, a user without a profile, or
\* a user with one
HookNoUser == [id |-> "null"]
HookUsers ==
    {HookNoUser} \cup {[id |-> "u1"]} \cup { [id |-> "u1", profile |-> prof] : prof \in Profiles }

\* obj?.field, as a truthy / falsy test
HasTruthy(obj, field, falsy) == field \in DOMAIN obj /\ obj[field] # falsy

\* mutant of hasCompletedProfile: the learning goals are not looked at
hasCompletedProfile_IgnoresGoals(usr) ==
    /\ usr.id # "null"
    /\ "profile" \in DOMAIN usr
    /\ HasTruthy(usr.profile, "backgroundLevel", "")
    /\ HasTruthy(usr.profile, "technicalBackground", "")

\* useAuth().hasCompletedProfile()
hasCompletedProfile(usr) ==
    /\ usr.id # "null"
    /\ "profile" \in DOMAIN usr
    /\ HasTruthy(usr.profile, "backgroundLevel", "")
    /\ "learningGoals" \in DOMAIN usr.profile /\ Len(usr.profile.learningGoals) # 0
    /\ HasTruthy(usr.profile, "technicalBackground", "")

\* useAuth().isAuthenticated: isLoggedIn = isAuthenticated && !!user
isLoggedIn(h) == h.isAuthenticated /\ h.user.id # "null"

HookStates == [user : HookUsers, isLoading : BOOLEAN, isAuthenticated : BOOLEAN]

\* ProtectedRouteProps: requireProfile, and whether a fallback node was passed
RouteProps == [requireProfile : BOOLEAN, fallback : BOOLEAN]

\* mutant of ProtectedRoute: the profile is not asked for
ProtectedRoute_SkipsProfile(h, pr) ==
    IF h.isLoading THEN "loading"
    ELSE IF ~isLoggedIn(h) THEN (IF pr.fallback THEN "fallback" ELSE "signInPrompt")
    ELSE "children"

\* what ProtectedRoute returns
ProtectedRoute(h, pr) ==
    IF h.isLoading THEN "loading"
    ELSE IF ~isLoggedIn(h) THEN (IF pr.fallback THEN "fallback" ELSE "signInPrompt")
    ELSE IF pr.requireProfile /\ ~hasCompletedProfile(h.user) THEN "profilePrompt"
    ELSE "children"

\* the values a render closes over
Seen(h, redirect) == [hook |-> h, shouldRedirect |-> redirect]

RouteInit ==
    /\ hook = [user |-> HookNoUser, isLoading |-> FALSE, isAuthenticated |-> FALSE]
    /\ props = [requireProfile |-> FALSE, fallback |-> FALSE]
    /\ rendered = "none"
    /\ shouldRedirect = FALSE
    /\ seen = Seen([user |-> HookNoUser, isLoading |-> FALSE, isAuthenticated |-> FALSE], FALSE)
    /\ effects = "none"
    /\ location = "page"

\* the component is mounted with some props and renders
Mount ==
    /\ UNCHANGED <<authVars, prefsVars, mockLocalStorage, currentTime, expected>>
    /\ rendered = "none"
    /\ \E pr \in RouteProps :
        /\ props' = pr
        /\ rendered' = ProtectedRoute(hook, pr)
    /\ seen' = Seen(hook, shouldRedirect)
    /\ effects' = "mount"
    /\ answer' = NoAnswer
    /\ UNCHANGED <<hook, shouldRedirect, location>>

\* the store changes (an answer arrived, another component acted) and the
\* component renders again; React runs the effects of a render before it
\* renders the next one
StoreChange ==
    /\ UNCHANGED <<authVars, prefsVars, mockLocalStorage, currentTime, expected>>
    /\ location = "page" /\ effects = "none"
    /\ \E h \in HookStates :
        /\ h # hook
        /\ hook' = h
        /\ IF rendered = "none"
           THEN UNCHANGED <<rendered, seen, effects>>
           ELSE /\ rendered' = ProtectedRoute(h, props)
                /\ seen' = Seen(h, shouldRedirect)
                /\ effects' = "update"
    /\ answer' = NoAnswer
    /\ UNCHANGED <<props, shouldRedirect, location>>

\* first effect of ProtectedRoute, with the values of the render it belongs
\* to: whether it calls setShouldRedirect(true)
SetsShouldRedirect(s) == ~s.hook.isLoading /\ ~isLoggedIn(s.hook)

\* ... and whether it sends the browser to /onboarding
GoesToOnboarding(s, pr) ==
    /\ ~s.hook.isLoading /\ isLoggedIn(s.hook)
    /\ pr.requireProfile /\ ~hasCompletedProfile(s.hook.user)

\* second effect of ProtectedRoute, run when shouldRedirect changed: it sends
\* the browser to the sign-in page
GoesToSignIn(s) == s.shouldRedirect

\* the effects of the last render run, in the order of their declaration:
\* on mount useAuth's effect calls initializeAuth(), which sets isLoading at
\* once when a token is stored; then the two effects of ProtectedRoute; a
\* change of the store or of shouldRedirect makes the component render again
RunEffects ==
    /\ UNCHANGED <<authVars, prefsVars, mockLocalStorage, currentTime, expected>>
    /\ location = "page" /\ effects # "none"
    /\ \E tokenStored \in BOOLEAN :
        LET h == IF effects = "mount" /\ tokenStored
                 THEN [hook EXCEPT !.isLoading = TRUE] ELSE hook
            redirect == shouldRedirect \/ SetsShouldRedirect(seen)
        IN  /\ hook' = h
            /\ shouldRedirect' = redirect
            /\ location' = IF GoesToSignIn(seen) THEN "signin"
                           ELSE IF GoesToOnboarding(seen, props) THEN "onboarding"
                           ELSE "page"
            /\ IF h # seen.hook \/ redirect # seen.shouldRedirect
               THEN /\ rendered' = ProtectedRoute(h, props)
                    /\ seen' = Seen(h, redirect)
                    /\ effects' = "update"
               ELSE /\ effects' = "none"
                    /\ UNCHANGED <<rendered, seen>>
    /\ answer' = NoAnswer
    /\ UNCHANGED props

\* a consumer calls hasCompletedProfile()
CallHasCompletedProfile ==
    /\ UNCHANGED <<authVars, prefsVars, mockLocalStorage, currentTime, expected>>
    /\ answer' = Answer("hasCompletedProfile", hook.user, hasCompletedProfile(hook.user))
    /\ UNCHANGED routeVars

NextRoute ==
    \/ Mount
    \/ StoreChange
    \/ RunEffects
    \/ CallHasCompletedProfile

(* --------------------------- specifications ----------------------------- *)
Init == AuthInit /\ PrefsInit /\ TokensInit /\ RouteInit

Next ==
    \/ \E p \in Procs : SignInCall(p)
    \/ \E p \in Procs : SignInResponse(p)
    \/ \E p \in Procs : SignUpCall(p)
    \/ \E p \in Procs : SignUpResponse(p)
    \/ \E p \in Procs : SignOutCall(p)
    \/ \E p \in Procs : SignOutResponse(p)
    \/ \E p \in Procs : UpdateProfileCall(p)
    \/ \E p \in Procs : UpdateProfileResponse(p)
    \/ \E p \in Procs : UpdatePreferencesCall(p)
    \/ \E p \in Procs : UpdatePreferencesResponse(p)
    \/ \E p \in Procs : InitializeAuthCall(p)
    \/ \E p \in Procs : MeResponse(p)
    \/ \E p \in Procs : RefreshResponse(p)
    \/ ClearError
    \/ Reload

Spec == Init /\ [][Next]_vars

\* a session as a sign-in followed by a reload leaves it
SignedIn ==
    /\ auth_token = 1
    /\ refresh_token = 1
    /\ user = [id |-> "u1", profile |-> 1, preferences |-> 1]
    /\ isLoading = FALSE
    /\ isAuthenticated = TRUE
    /\ error = NoError
    /\ procs = [p \in Procs |-> Idle]

\* profile and preference updates, through both stores, signed in or not
InitPrefs == (AuthInit \/ SignedIn) /\ PrefsInit /\ TokensInit /\ RouteInit

NextPrefs ==
    \/ \E p \in Procs : UpdateProfileCall(p)
    \/ \E p \in Procs : UpdateProfileResponse(p)
    \/ \E p \in Procs : UpdatePreferencesCall(p)
    \/ \E p \in Procs : UpdatePreferencesResponse(p)
    \/ \E p \in Procs : SetLanguage(p)
    \/ \E p \in Procs : ToggleChatbot(p)
    \/ \E p \in Procs : UpdateAnyPreferences(p)
    \/ \E p \in Procs : PrefsUpdateResponse(p)
    \/ ResetPreferences
    \/ PrefsClearError
    \/ ClearError

SpecPrefs == InitPrefs /\ [][NextPrefs]_vars

\* the token utilities and the session manager on their own
SpecTokens == Init /\ [][NextTokens]_vars

\* a ProtectedRoute over any state the hook can show it
SpecRoute == Init /\ [][NextRoute]_vars

(* ------------------------------- claims --------------------------------- *)
Body(pair) == <<pair.token, pair.refreshToken>>

\* a body that carries both fields
CompletePair(pair) == pair.token # Null /\ pair.refreshToken # Null

\* C1: when signOut() has returned - whatever the answer to POST /auth/signout
\* was: OK, a non-OK status, a thrown fetch, or no request at all - localStorage
\* holds neither auth_token nor refresh_token and the store has user = null
\* and isAuthenticated = false.
C1_SignOutClearsLocalState ==
    \A p \in Procs :
        Returned(p, "signOut") =>
            /\ auth_token = Null
            /\ refresh_token = Null
            /\ user = NoUser
            /\ ~isAuthenticated

\* a signOut of a signed-in session whose remote call threw has returned
C1_Witness ==
    \E p \in Procs :
        /\ Returned(p, "signOut")
        /\ procs[p].resp.kind = "neterr"
        /\ auth_token = Null
        /\ ~isAuthenticated

\* C2: one getCurrentUser call sends at most one refresh request: after
\* call, 401, refresh-ok (a complete new pair), retry, 401 no further
\* refresh is sent.
C2_AtMostOneRefresh ==
    \A p \in Procs :
        (procs[p].op = "initializeAuth" /\ CompletePair(procs[p].pair)) =>
            procs[p].refreshes <= 1

\* C3: auth_token and refresh_token are both present or both absent in every
\* reachable state, for any backend response.
C3_BothOrNeither == (auth_token = Null) <=> (refresh_token = Null)

\* C4: a signIn the backend rejects (non-OK answer) writes neither token,
\* leaves isAuthenticated = false and surfaces a non-null error.
C4_RejectedSignIn ==
    [][\A p \in Procs :
        ( /\ procs[p].op = "signIn" /\ procs[p].pc = "fetch"
          /\ procs'[p].pc = "done" /\ procs'[p].resp.kind = "fail" )
        => /\ auth_token' = auth_token
           /\ refresh_token' = refresh_token
           /\ ~isAuthenticated'
           /\ error' # NoError]_vars

\* a signIn started without a session has been rejected
C4_Witness ==
    \E p \in Procs :
        /\ Returned(p, "signIn")
        /\ procs[p].resp.kind = "fail"
        /\ user = NoUser
        /\ auth_token = Null /\ refresh_token = Null
        /\ ~isAuthenticated
        /\ error # NoError

\* the initializeAuth call p has returned after: GET /auth/me -> 401, one
\* refresh accepted with a complete pair, GET /auth/me -> OK, with no other
\* call taking a step since the refresh was accepted
RestoredByRefresh(p) ==
    /\ Returned(p, "initializeAuth")
    /\ procs[p].refreshes = 1
    /\ procs[p].req = "main" /\ procs[p].resp.kind = "ok"
    /\ CompletePair(procs[p].pair)

\* C5: with an expired credential (401) and a valid refresh credential (the
\* refresh is accepted and the retry with the new credential answered OK), one
\* initializeAuth() ends with isAuthenticated = true, the user the backend
\* returned, and the newly issued pair in storage.
C5_RestoreWithRefresh ==
    \A p \in Procs :
        RestoredByRefresh(p) =>
            /\ isAuthenticated
            /\ user = procs[p].resp.user
            /\ <<auth_token, refresh_token>> = Body(procs[p].pair)

C5_Witness ==
    \E p \in Procs :
        /\ RestoredByRefresh(p)
        /\ isAuthenticated
        /\ user # NoUser
        /\ auth_token = procs[p].pair.token

\* C6: if the refresh attempted during initializeAuth() fails (rejected, or a
\* network error), both tokens are removed and the store ends with
\* isAuthenticated = false and user = null.
C6_RefreshFailureClears ==
    \A p \in Procs :
        (Returned(p, "initializeAuth") /\ procs[p].req = "refresh") =>
            /\ auth_token = Null
            /\ refresh_token = Null
            /\ ~isAuthenticated
            /\ user = NoUser

\* C7: after initializeAuth() has returned with an empty session record (no
\* auth_token, no refresh_token) in storage, isAuthenticated = false and
\* user = null.
C7_EmptyRecordUnauthenticated ==
    \A p \in Procs :
        (Returned(p, "initializeAuth") /\ auth_token = Null /\ refresh_token = Null) =>
            (~isAuthenticated /\ user = NoUser)

\* a pending call that writes the stored tokens: signIn, signUp, signOut, or a
\* call awaiting its token refresh
Mutating(r) ==
    /\ Pending(r)
    /\ (r.op \in {"signIn", "signUp", "signOut"} \/ r.pc = "refresh")

\* C8: two mutating operations are never pending at the same time.
C8_MutatingCallsSerialized ==
    Cardinality({p \in Procs : Mutating(procs[p])}) <= 1

\* C9: when two concurrent signIn calls are both accepted, each with a
\* complete pair of its own, exactly one pair is written - the call answered
\* second does not write over what the first stored - and storage holds the
\* pair returned to one of the two calls.
C9_ConcurrentSignInsWriteOnce ==
    [][\A p, q \in Procs :
        ( /\ p # q
          /\ Returned(p, "signIn") /\ procs[p].resp.kind = "ok"
          /\ procs[q].op = "signIn" /\ procs[q].pc = "fetch"
          /\ procs'[q].pc = "done" /\ procs'[q].resp.kind = "ok"
          /\ CompletePair(procs[p].resp.pair) /\ CompletePair(procs'[q].resp.pair)
          /\ procs[p].resp.pair # procs'[q].resp.pair )
        => /\ <<auth_token', refresh_token'>> = <<auth_token, refresh_token>>
           /\ <<auth_token', refresh_token'>> \in
                {Body(procs[p].resp.pair), Body(procs'[q].resp.pair)}]_vars

\* C10: an updateProfile / updatePreferences call answered 401 (with a
\* refresh_token stored) has sent exactly one refresh request when it returns.
C10_UnauthorizedTriggersRefresh ==
    \A p \in Procs :
        ( /\ procs[p].pc = "done"
          /\ procs[p].op \in {"updateProfile", "updatePreferences"}
          /\ procs[p].resp.kind = "401"
          /\ refresh_token # Null )
        => procs[p].refreshes = 1

\* C11: right after an accepted signIn, signUp or refresh that issued a complete
\* pair, storage holds exactly that pair.
C11_StorageHoldsIssuedPair ==
    \A p \in Procs :
        /\ ( /\ procs[p].pc = "done"
             /\ procs[p].op \in {"signIn", "signUp"}
             /\ procs[p].resp.kind = "ok"
             /\ CompletePair(procs[p].resp.pair) )
           => <<auth_token, refresh_token>> = Body(procs[p].resp.pair)
        /\ ( /\ procs[p].op = "initializeAuth"
             /\ procs[p].pc = "fetch"
             /\ CompletePair(procs[p].pair) )
           => <<auth_token, refresh_token>> = Body(procs[p].pair)

\* C12: a signIn, signUp or initializeAuth whose own request fails with a
\* network error or a server error (a non-OK status other than 401) while an
\* authenticated session exists leaves user, isAuthenticated and the stored
\* tokens as they were before the answer arrived.
C12_FailureLeavesSession ==
    [][\A p \in Procs :
        ( /\ procs[p].op \in {"signIn", "signUp", "initializeAuth"}
          /\ procs[p].pc = "fetch"
          /\ procs'[p].pc = "done"
          /\ procs'[p].resp.kind \in {"neterr", "fail"}
          /\ isAuthenticated /\ user # NoUser /\ auth_token # Null )
        => /\ user' = user
           /\ isAuthenticated' = isAuthenticated
           /\ <<auth_token', refresh_token'>> = <<auth_token, refresh_token>>]_vars

\* the call in slot p is an update of the profile or of the preferences
IsUpdate(r) == r.op \in {"updateProfile", "updatePreferences"} \cup PrefsOps

\* C13: the step that sends an update request, and the step in which an update
\* ends without a success (a failed answer, or no request at all), leave
\* user in the auth store and preferences in the preferences store unchanged.
C13_UpdatesOnlyAfterAck ==
    [][\A p \in Procs :
        ( /\ IsUpdate(procs'[p])
          /\ procs[p].pc # procs'[p].pc
          /\ \/ procs'[p].pc = "fetch"
             \/ procs'[p].pc = "done" /\ procs'[p].resp.kind # "ok" )
        => (user' = user /\ preferences' = preferences)]_vars

\* an update through the preferences store of a store that holds other
\* preferences than the defaults has been refused, next to a signed-in user
C13_Witness ==
    \E p \in Procs :
        /\ Returned(p, "preferences.updatePreferences")
        /\ procs[p].resp.kind \in {"401", "fail", "neterr"}
        /\ preferences # defaultPreferences
        /\ prefsError # NoError
        /\ user # NoUser

\* C14: the user identity and isAuthenticated are not persisted: a page
\* reload starts with user = null and isAuthenticated = false.
C14_OnlyTokensPersisted ==
    [][Reload => (user' = NoUser /\ ~isAuthenticated')]_vars

\* C20: when an updateProfile and an updatePreferences call overlap and both
\* are acknowledged, then once the second answer has arrived user holds the
\* profile returned to updateProfile and the preferences returned to
\* updatePreferences.
C20_ConcurrentUpdatesMerge ==
    [][\A p, q \in Procs :
        ( /\ p # q
          /\ procs[p].pc = "done" /\ procs[p].resp.kind = "ok"
          /\ procs[q].pc = "fetch"
          /\ procs'[q].pc = "done" /\ procs'[q].resp.kind = "ok"
          /\ {procs[p].op, procs[q].op} = {"updateProfile", "updatePreferences"} )
        => LET prof == IF procs[p].op = "updateProfile" THEN procs[p].resp.val ELSE procs'[q].resp.val
               pref == IF procs[p].op = "updatePreferences" THEN procs[p].resp.val ELSE procs'[q].resp.val
           IN user'.profile = prof /\ user'.preferences = pref]_vars

\* C15: isTokenExpired(token) is true for every token that fails to decode
\* and for every token whose exp is less than or equal to the current time.
C15_ExpiredAtOrBeforeNow ==
    ( /\ answer.fn = "isTokenExpired"
      /\ \/ ~Decodes(answer.arg)
         \/ answer.arg.kind = "jwt" /\ answer.arg.exp <= currentTime )
    => answer.value = TRUE

\* C16: authService.isAuthenticated() is true only if a credential is stored,
\* is not blank and is not expired (its exp is not before the current time).
C16_AuthenticatedOnlyIfUnexpired ==
    (answer.fn = "authService.isAuthenticated" /\ answer.value = TRUE)
    => /\ Truthy(mockLocalStorage["auth_token"])
       /\ mockLocalStorage["auth_token"].kind # "blank"
       /\ ~( mockLocalStorage["auth_token"].kind = "jwt"
             /\ mockLocalStorage["auth_token"].exp < currentTime )

\* C17: after any sequence of storeTokens and clearTokens, getAuthToken and
\* getRefreshToken return the pair of the last storeTokens if no clearTokens
\* followed it, and null, null otherwise.
C17_LoadReturnsLastStore == <<getAuthToken, getRefreshToken>> = expected

\* a stored pair is read back unchanged after the clock has moved on
C17_Witness ==
    /\ expected[1].kind = "jwt" /\ expected[2].kind = "noexp"
    /\ getAuthToken = expected[1]
    /\ getRefreshToken = expected[2]
    /\ currentTime > 0

\* the outcome the four inputs select, the fallback aside
FourOutcomes(h, pr) ==
    IF h.isLoading THEN "loading"
    ELSE IF ~isLoggedIn(h) THEN "signInPrompt"
    ELSE IF pr.requireProfile /\ ~hasCompletedProfile(h.user) THEN "profilePrompt"
    ELSE "children"

\* C18 as stated: a mounted ProtectedRoute shows the outcome selected by
\* (isLoading, isAuthenticated, requireProfile, hasCompletedProfile) alone.
C18_FourOutcomes == rendered # "none" => rendered = FourOutcomes(hook, props)

\* C18: a mounted ProtectedRoute shows the loading indicator if isLoading;
\* otherwise, if not authenticated, the fallback passed to it or, without one,
\* the sign-in prompt; otherwise the profile prompt if requireProfile and the
\* profile is incomplete; otherwise the children.  The children are never
\* shown while loading, while unauthenticated, or (with requireProfile) while
\* the profile is incomplete.
C18_OutcomesWithFallback ==
    rendered # "none" =>
        /\ rendered = IF FourOutcomes(hook, props) = "signInPrompt" /\ props.fallback
                      THEN "fallback" ELSE FourOutcomes(hook, props)
        /\ rendered = "children" =>
              /\ ~hook.isLoading
              /\ hook.isAuthenticated /\ hook.user.id # "null"
              /\ props.requireProfile => hasCompletedProfile(hook.user)

\* the children are shown to a signed-in user with a complete profile on a
\* route that requires one
C18_Witness ==
    /\ rendered = "children"
    /\ props.requireProfile
    /\ hook.isAuthenticated /\ ~hook.isLoading
    /\ hasCompletedProfile(hook.user)

\* a field of an object that may lack it
FieldOr(obj, field, default) == IF field \in DOMAIN obj THEN obj[field] ELSE default

\* C19: hasCompletedProfile() is true if and only if there is a user whose
\* profile has a non-empty backgroundLevel, at least one learning goal and a
\* non-empty technicalBackground; false for {beginner, [], 'x'}, true for
\* {beginner, ['goal1'], 'x'}.
C19_CompleteIffAllThree ==
    answer.fn = "hasCompletedProfile" =>
        LET prof == FieldOr(answer.arg, "profile", <<>>) IN
        /\ answer.value <=>
              /\ answer.arg.id # "null"
              /\ FieldOr(prof, "backgroundLevel", "") # ""
              /\ Len(FieldOr(prof, "learningGoals", <<>>)) >= 1
              /\ FieldOr(prof, "technicalBackground", "") # ""
        /\ prof = [backgroundLevel |-> "beginner", learningGoals |-> <<>>,
                   technicalBackground |-> "x"] => ~answer.value
        /\ prof = [backgroundLevel |-> "beginner", learningGoals |-> <<"goal1">>,
                   technicalBackground |-> "x"] => answer.value

\* hasCompletedProfile() answered true for {beginner, ['goal1'], 'x'}
C19_Witness ==
    /\ answer.fn = "hasCompletedProfile"
    /\ answer.value = TRUE
    /\ answer.arg = [id |-> "u1", profile |->
            [backgroundLevel |-> "beginner", learningGoals |-> <<"goal1">>,
             technicalBackground |-> "x"]]

\* the initializeAuth call r sent one refresh, which was accepted, and its
\* second GET /auth/me was answered OK
RefreshedAndRestored(r) ==
    /\ r.op = "initializeAuth" /\ r.pc = "done"
    /\ r.refreshes = 1 /\ r.req = "main" /\ r.resp.kind = "ok"

\* the initializeAuth call r sent one refresh, which the backend rejected
RefreshRejected(r) ==
    /\ r.op = "initializeAuth" /\ r.pc = "done"
    /\ r.refreshes = 1 /\ r.req = "refresh" /\ r.resp.kind = "fail"

\* C21: two initializeAuth calls overlap over an expired credential, both send
\* a refresh, the backend accepts one refresh (and answers that call's retry
\* OK) and rejects the other; when the second of the two has returned the
\* store is authenticated and both tokens are stored.
C21_OverlappingInitializeAuth ==
    [][\A p, q \in Procs :
        ( /\ p # q
          /\ procs[p].pc = "done"
          /\ procs[q].op = "initializeAuth" /\ Pending(procs[q])
          /\ procs'[q].pc = "done"
          /\ \/ RefreshedAndRestored(procs[p]) /\ RefreshRejected(procs'[q])
             \/ RefreshRejected(procs[p]) /\ RefreshedAndRestored(procs'[q]) )
        => /\ isAuthenticated'
           /\ auth_token' # Null
           /\ refresh_token' # Null]_vars

\* the call in slot q returns in this step with an accepted request of its own
Succeeds(q, ops) ==
    /\ procs[q].op \in ops /\ Pending(procs[q])
    /\ procs'[q].pc = "done"
    /\ procs'[q].req = "main" /\ procs'[q].resp.kind = "ok"

\* C22: in the step after signOut() has returned, a token is written to
\* storage only by a signIn that succeeds in that step.
C22_TokensStayAbsentAfterSignOut ==
    [][\A p \in Procs :
        ( /\ Returned(p, "signOut")
          /\ (auth_token' # Null \/ refresh_token' # Null) )
        => \E q \in Procs : Succeeds(q, {"signIn"})]_vars

\* C23: in the step after signOut() has returned, user becomes non-null only
\* by a signIn, signUp or initializeAuth that succeeds in that step.
C23_UserStaysNullAfterSignOut ==
    [][\A p \in Procs :
        ( /\ Returned(p, "signOut")
          /\ user' # NoUser )
        => \E q \in Procs : Succeeds(q, {"signIn", "signUp", "initializeAuth"})]_vars

\* C24: in every reachable state isAuthenticated = true implies that
\* auth_token is present in localStorage.
C24_AuthenticatedImpliesToken == isAuthenticated => auth_token # Null

\* the actions of the auth store that await the backend
AuthStoreOps ==
    {"signIn", "signUp", "signOut", "updateProfile", "updatePreferences", "initializeAuth"}

\* C25: isLoading is true whenever a call of an auth store action is awaiting
\* a backend response.
C25_LoadingWhilePending ==
    (\E p \in Procs : Pending(procs[p]) /\ procs[p].op \in AuthStoreOps) => isLoading

\* C26: when ProtectedRoute has sent the browser to the sign-in page, the
\* session at that moment is not loading and not authenticated.
C26_RedirectOnlyWhenSignedOut ==
    location = "signin" => (~hook.isLoading /\ ~isLoggedIn(hook))

\* the UserPreferences that the payload d of PUT /auth/preferences stands for
PreferencesOf(d) ==
    [language |-> IF ((d - 1) \div 2) % 2 = 0 THEN "english" ELSE "urdu",
     chatbotEnabled |-> (d % 2 = 1)]

\* C27: while a user is signed in, when a preferences update through either
\* store has succeeded, user.preferences in the auth store equals preferences
\* in the preferences store.
C27_PreferencesStoresAgree ==
    [][\A p \in Procs :
        ( /\ procs[p].op \in {"updatePreferences"} \cup PrefsOps
          /\ procs[p].pc = "fetch"
          /\ procs'[p].pc = "done" /\ procs'[p].resp.kind = "ok"
          /\ isAuthenticated' /\ user' # NoUser )
        => PreferencesOf(user'.preferences) = preferences']_vars

\* the answer of the call r echoes the preferences it sent
Echoed(r) == r.pc = "done" /\ r.resp.kind = "ok" /\ r.resp.val = r.sent

\* C28: two toggleChatbot calls that overlap (both sent the same preferences,
\* the flag negated) and are both answered with an echo of what they sent
\* leave chatbotEnabled, once the second answer has arrived, at the value it
\* had before the two calls.
C28_TwoTogglesRestoreFlag ==
    [][\A p, q \in Procs :
        ( /\ p # q
          /\ procs[p].op = "preferences.toggleChatbot" /\ Echoed(procs[p])
          /\ procs[q].op = "preferences.toggleChatbot" /\ procs[q].pc = "fetch"
          /\ Echoed(procs'[q])
          /\ procs[p].sent = procs[q].sent )
        => preferences'.chatbotEnabled = ~procs[q].sent.chatbotEnabled]_vars

\* C29: isTokenExpired(token) is true for every token that decodes and
\* carries no exp.
C29_NoExpiryCountsAsExpired ==
    (answer.fn = "isTokenExpired" /\ answer.arg.kind = "noexp") => answer.value = TRUE

\* C30: hasCompletedProfile() accepts a profile only if its backgroundLevel is
\* beginner, intermediate or advanced, its technicalBackground has at least 3
\* characters, its learningGoals is a non-empty array and its
\* preferredLanguage is english or urdu.
C30_AcceptedOnlyIfValid ==
    (answer.fn = "hasCompletedProfile" /\ answer.value = TRUE) =>
        LET prof == FieldOr(answer.arg, "profile", <<>>) IN
        /\ FieldOr(prof, "backgroundLevel", "") \in {"beginner", "intermediate", "advanced"}
        /\ Len(FieldOr(prof, "technicalBackground", "")) >= 3
        /\ Len(FieldOr(prof, "learningGoals", <<>>)) >= 1
        /\ FieldOr(prof, "preferredLanguage", "") \in {"english", "urdu"}

====
